---- MODULE Spec2Model ----
(***************************************************************************)
(* go-conf: the etcd-backed configuration client, its cache registry       *)
(* (etcdCache), the per-key cache entries (etcdCacheEntry) and the          *)
(* long-poll reconnect loop each entry owns.                                *)
(*                                                                         *)
(* Caller goroutines are the Threads; every `go e.watch(c)` is a loop and   *)
(* every `go o(key, val)` is a task.  A mutex is acquired in a step of its  *)
(* own whenever the holder can block while holding it; a critical section   *)
(* that cannot block is one step guarded by the lock being free.            *)
(***************************************************************************)
EXTENDS Integers, Sequences, FiniteSets, TLC

---------------------------------------------------------------------------
(* Bounds of the model *)

NThreads == 2
MaxWrites == 3
MaxEntries == 2
MaxObservers == 2
MaxErr == 2
MaxApply == 3
MaxFailures == 6
MaxSuite == 3

Threads == 1..NThreads
EntryIds == 1..MaxEntries
LoopIds == 1..MaxEntries
Keys == {"a.b.c"}
Observers == {"o1", "o2"}

---------------------------------------------------------------------------
(* Values and responses *)

\* Go values handed to Set: a string and a non-string (an int).
StrValue(s) == [kind |-> "string", s |-> s, n |-> 0]
IntValue(n) == [kind |-> "int", s |-> "", n |-> n]
NoValue == StrValue("")
SetValues == {StrValue("v"), IntValue(7)}
ExtValues == {"x"}

Digit(d) ==
  CASE d = 0 -> "0" [] d = 1 -> "1" [] d = 2 -> "2" [] d = 3 -> "3"
    [] d = 4 -> "4" [] d = 5 -> "5" [] d = 6 -> "6" [] d = 7 -> "7"
    [] d = 8 -> "8" [] OTHER -> "9"

RECURSIVE Sprint(_)
Sprint(n) == IF n < 10 THEN Digit(n) ELSE Sprint(n \div 10) \o Digit(n % 10)

\* The form value EtcdConfig.set sends: a string as it is, anything else
\* formatted with %v.
Encode(v) == IF v.kind = "string" THEN v.s ELSE Sprint(v.n)

\* *etcdResponse; node = FALSE is a nil Node, action "nil" a nil response.
Rsp(action, value, modified) ==
  [action |-> action, node |-> TRUE, value |-> value, modified |-> modified]
NilRsp == [action |-> "nil", node |-> FALSE, value |-> "", modified |-> 0]
IsNil(r) == r.action = "nil"

---------------------------------------------------------------------------
VARIABLES
  sEvents,   \* the store: every change so far; change i has index i
  props,     \* etcdCache.props: key -> entry (0: no entry)
  cacheW,    \* etcdCache's RWMutex: the writer (0: none)
  cacheR,    \* etcdCache's RWMutex: the readers
  entries,   \* the etcdCacheEntry objects
  entryW,    \* each entry's RWMutex: the writer (0: none)
  th,        \* the caller goroutines
  res,       \* what each goroutine's last Get, Set or Delete returned
  loops,     \* the goroutines running etcdCacheEntry.watch
  tasks,     \* the goroutines running an observer, not yet run
  calls,     \* per observer, the invocations it has received, in order
  applied    \* the updates the loops stored, in order (history)

vars == <<sEvents, props, cacheW, cacheR, entries, entryW, th, res, loops,
          tasks, calls, applied>>

storeVars == <<sEvents>>
cacheVars == <<props, cacheW, cacheR>>
loopVars == <<loops, tasks, calls, applied>>

---------------------------------------------------------------------------
(* The store (etcd v2 keys API), as the client sees it *)

sIndex == Len(sEvents)

EventsOf(key) == {i \in 1..Len(sEvents) : sEvents[i].key = key}

LastEvent(key) ==
  IF EventsOf(key) = {} THEN 0
  ELSE CHOOSE i \in EventsOf(key) : \A j \in EventsOf(key) : j <= i

Exists(key) == LastEvent(key) # 0 /\ sEvents[LastEvent(key)].action = "set"

EventRsp(i) == Rsp(sEvents[i].action, sEvents[i].value, i)

\* GET /v2/keys/{path}
StoreGet(key) == Rsp("get", sEvents[LastEvent(key)].value, LastEvent(key))

\* The change a PUT or DELETE appends.
Event(key, action, value) == [key |-> key, action |-> action, value |-> value]

\* The first change of key at or after index wait (0: none yet).
FirstSince(key, wait) ==
  LET S == {i \in EventsOf(key) : i >= wait}
  IN  IF S = {} THEN 0 ELSE CHOOSE i \in S : \A j \in S : i <= j

---------------------------------------------------------------------------
(* Cache entries *)

NoEntry ==
  [alloc |-> FALSE, key |-> "", response |-> NilRsp, watching |-> FALSE,
   observers |-> <<>>, finalize |-> FALSE]

\* newEtcdCacheEntry
newEtcdCacheEntry(key, rsp) ==
  [alloc |-> TRUE, key |-> key, response |-> rsp, watching |-> FALSE,
   observers |-> <<>>, finalize |-> FALSE]

Allocated == {e \in EntryIds : entries[e].alloc}
FreeEntry == CHOOSE e \in EntryIds : ~entries[e].alloc /\ \A f \in EntryIds : f < e => entries[f].alloc

NoLoop ==
  [on |-> FALSE, e |-> 0, pc |-> "", rsp |-> NilRsp, wait |-> 0, errcount |-> 0,
   err |-> "", delay |-> 0, obs |-> <<>>, seq |-> 0]

Running == {l \in LoopIds : loops[l].on}
LoopsOf(e) == {l \in Running : loops[l].e = e}
FreeLoop == CHOOSE l \in LoopIds : ~loops[l].on /\ \A m \in LoopIds : m < l => loops[m].on

\* c.Lock() that excludes nobody.
CacheLockIgnored == TRUE

\* sync.RWMutex of the registry and of an entry
CacheLockFree == cacheW = 0 /\ cacheR = {}
CacheReadable == cacheW = 0
EntryLockFree(e) == entryW[e] = 0


RECURSIVE SumLen(_)
SumLen(S) ==
  IF S = {} THEN 0
  ELSE LET e == CHOOSE x \in S : TRUE
       IN  Len(entries[e].observers) + SumLen(S \ {e})

\* Room for one more observer (a bound of the model): observers registered,
\* plus the registrations under way.
ObserverRoom ==
  SumLen(EntryIds)
    + Cardinality({t \in Threads : th[t].pc \in {"ao_lookup", "ao_create", "ao_entry"}})
    < MaxObservers

\* startWatching without the test of e.watching.
startWatchingAlways(e, ent) ==
  /\ \E l \in LoopIds : ~loops[l].on
  /\ entries' = [entries EXCEPT ![e] = [ent EXCEPT !.finalize = TRUE, !.watching = TRUE]]
  /\ loops' = [loops EXCEPT ![FreeLoop] = [NoLoop EXCEPT !.on = TRUE, !.e = e, !.pc = "top"]]

\* etcdCacheEntry.startWatching, on the entry record ent the caller's critical
\* section has built so far: launch a loop only if the entry is not watching.
startWatching(e, ent) ==
  IF ~ent.watching
  THEN /\ \E l \in LoopIds : ~loops[l].on
       /\ entries' = [entries EXCEPT ![e] = [ent EXCEPT !.finalize = TRUE, !.watching = TRUE]]
       /\ loops' = [loops EXCEPT ![FreeLoop] = [NoLoop EXCEPT !.on = TRUE, !.e = e, !.pc = "top"]]
  ELSE /\ entries' = [entries EXCEPT ![e] = ent]
       /\ UNCHANGED loops

\* etcdCacheEntry.AddObserver, inside its critical section
entryAddObserver(e, o) ==
  startWatching(e, [entries[e] EXCEPT !.observers = Append(@, o)])

\* etcdCacheEntry.Watch, inside its critical section
entryWatch(e) == startWatching(e, entries[e])

\* etcdCache.set: replace the response of the key's entry, or create the entry.
\* Gives the entry; the entry's own lock guards SetResponse.
setTarget(key) == IF props[key] # 0 THEN props[key] ELSE FreeEntry

\* c.set that puts a new entry in the place of the key's entry.
cacheSetNewEntry(key, rsp) ==
  IF props[key] # 0
  THEN /\ EntryLockFree(props[key])
       /\ entries' = [entries EXCEPT ![props[key]] = newEtcdCacheEntry(key, rsp)]
       /\ UNCHANGED props
  ELSE /\ \E e \in EntryIds : ~entries[e].alloc
       /\ entries' = [entries EXCEPT ![FreeEntry] = newEtcdCacheEntry(key, rsp)]
       /\ props' = [props EXCEPT ![key] = FreeEntry]

cacheSet(key, rsp) ==
  IF props[key] # 0
  THEN /\ EntryLockFree(props[key])
       /\ entries' = [entries EXCEPT ![props[key]].response = rsp]
       /\ UNCHANGED props
  ELSE /\ \E e \in EntryIds : ~entries[e].alloc
       /\ entries' = [entries EXCEPT ![FreeEntry] = newEtcdCacheEntry(key, rsp)]
       /\ props' = [props EXCEPT ![key] = FreeEntry]

---------------------------------------------------------------------------
(* Caller goroutines *)

\* The locks goroutine t holds: the registry's, as writer or reader, or an
\* entry's.
Holds(t) == cacheW = t \/ t \in cacheR \/ \E e \in EntryIds : entryW[e] = t

\* A goroutine between calls, and the call it is in: its arguments and locals.
IdleThread ==
  [pc |-> "idle", op |-> "", key |-> "", obs |-> "", val |-> NoValue, e |-> 0,
   rsp |-> NilRsp, once |-> FALSE]

\* The call returns: the goroutine is free for its next call, or, having been
\* started for this one call, ends.
Return(r) == IF r.once THEN [IdleThread EXCEPT !.pc = "done", !.once = TRUE] ELSE IdleThread

Call(op, key, obs, val, pc) ==
  [IdleThread EXCEPT !.pc = pc, !.op = op, !.key = key, !.obs = obs, !.val = val]

Idle(t) == th[t].pc = "idle"

\* What the last Get, Set or Delete of a goroutine returned (err, ret), the
\* index and value it wrote, and for a Get the write this goroutine made just
\* before it (pop, pidx, pval) and whether that write is still the last one of
\* the key when the Get returns (fresh); for a CompareAndSwap its key and its
\* index argument (key, arg); for a request answered by the store on its own,
\* the status and the body of the answer (status, body); for a Get of a suite,
\* the configurations of the suite (suite) and how many of them were asked (idx).
NoResult ==
  [op |-> "", err |-> "", ret |-> "", idx |-> 0, val |-> NoValue,
   pop |-> "", pidx |-> 0, pval |-> NoValue, fresh |-> FALSE, key |-> "", arg |-> 0,
   status |-> 0, body |-> "", suite |-> <<>>]

Result(op, err, ret, idx, val) ==
  [NoResult EXCEPT !.op = op, !.err = err, !.ret = ret, !.idx = idx, !.val = val]

GetReturn(t, err, ret) ==
  [Result("Get", err, ret, 0, NoValue) EXCEPT
     !.pop = IF res[t].err = "" THEN res[t].op ELSE "",
     !.pidx = IF res[t].err = "" THEN res[t].idx ELSE 0,
     !.pval = IF res[t].err = "" THEN res[t].val ELSE NoValue,
     !.fresh = res[t].err = "" /\ res[t].idx = LastEvent(th[t].key)]

\* rsp.Node.Value of a response in hand; a nil Node is a nil dereference.
NodeValue(rsp) == IF rsp.node THEN <<"", rsp.value>> ELSE <<"panic", "">>

----
\* EtcdConfig.Watch -> etcdCache.AddObserver: c.Lock().  A goroutine started for
\* this one call notes the index of the store at the call (res[t].idx).
WatchStart(t, key, o, once) ==
  /\ Idle(t)
  /\ ObserverRoom
  /\ CacheLockFree
  /\ cacheW' = t
  /\ th' = [th EXCEPT ![t] = [Call("Watch", key, o, NoValue, "ao_lookup") EXCEPT !.once = once]]
  /\ res' = IF once THEN [res EXCEPT ![t] = Result("Watch", "", "", sIndex, NoValue)] ELSE res
  /\ UNCHANGED <<sEvents, props, cacheR, entries, entryW, loopVars>>

WatchBegin(t, key, o) == WatchStart(t, key, o, FALSE)

\* A goroutine started to make one Watch call, with the observer of its own.
ObsOf(t) == IF t = 1 THEN "o1" ELSE "o2"
WatchOnce(t, key) == WatchStart(t, key, ObsOf(t), TRUE)

\* etcdCache.getOrCreate: e, ok := c.props[key]
GetOrCreateLookup(t) ==
  /\ th[t].pc = "ao_lookup"
  /\ th' = [th EXCEPT ![t].pc = IF props[th[t].key] # 0 THEN "ao_entry" ELSE "ao_create",
                      ![t].e = props[th[t].key]]
  /\ UNCHANGED <<sEvents, cacheVars, entries, entryW, res, loopVars>>

\* etcdCache.getOrCreate: e = newEtcdCacheEntry(key, nil); c.props[key] = e
GetOrCreateInsert(t) ==
  /\ th[t].pc = "ao_create"
  /\ \E e \in EntryIds : ~entries[e].alloc
  /\ entries' = [entries EXCEPT ![FreeEntry] = newEtcdCacheEntry(th[t].key, NilRsp)]
  /\ props' = [props EXCEPT ![th[t].key] = FreeEntry]
  /\ th' = [th EXCEPT ![t].pc = "ao_entry", ![t].e = FreeEntry]
  /\ UNCHANGED <<sEvents, cacheW, cacheR, entryW, res, loopVars>>

\* e.AddObserver(c.config, observer), then the deferred c.Unlock()
CacheAddObserverEntry(t) ==
  /\ th[t].pc = "ao_entry"
  /\ EntryLockFree(th[t].e)
  /\ entryAddObserver(th[t].e, th[t].obs)
  /\ cacheW' = 0
  /\ th' = [th EXCEPT ![t] = Return(th[t])]
  /\ UNCHANGED <<sEvents, props, cacheR, entryW, res, tasks, calls, applied>>

----
\* EtcdConfig.Get -> etcdCache.Get: c.RLock()
GetBegin(t, key) ==
  /\ Idle(t)
  /\ CacheReadable
  /\ cacheR' = cacheR \cup {t}
  /\ th' = [th EXCEPT ![t] = Call("Get", key, "", NoValue, "cget_read")]
  /\ UNCHANGED <<sEvents, props, cacheW, entries, entryW, res, loopVars>>

\* etcdCache.Get with the RUnlock left to the end of EtcdConfig.Get: the read
\* lock of the registry is held while the store is asked.
CacheGetReadHolding(t) ==
  LET e == props[th[t].key]
      hit == e # 0 /\ ~IsNil(entries[e].response) IN
  /\ th[t].pc = "cget_read"
  /\ e # 0 => EntryLockFree(e)
  /\ cacheR' = IF hit THEN cacheR \ {t} ELSE cacheR
  /\ th' = [th EXCEPT ![t] = IF hit THEN Return(@) ELSE [@ EXCEPT !.pc = "get_fetch"]]
  /\ res' = IF hit
            THEN [res EXCEPT ![t] = GetReturn(t, NodeValue(entries[e].response)[1],
                                              NodeValue(entries[e].response)[2])]
            ELSE res
  /\ UNCHANGED <<sEvents, props, cacheW, entries, entryW, loopVars>>

\* etcdCache.Get: the entry's Response() under its read lock, c.RUnlock(); then
\* EtcdConfig.Get answers from the cached response unless there is none.
CacheGetRead(t) ==
  LET e == props[th[t].key]
      hit == e # 0 /\ ~IsNil(entries[e].response) IN
  /\ th[t].pc = "cget_read"
  /\ e # 0 => EntryLockFree(e)
  /\ cacheR' = cacheR \ {t}
  /\ th' = [th EXCEPT ![t] = IF hit THEN Return(@) ELSE [@ EXCEPT !.pc = "get_fetch"]]
  /\ res' = IF hit
            THEN [res EXCEPT ![t] = GetReturn(t, NodeValue(entries[e].response)[1],
                                              NodeValue(entries[e].response)[2])]
            ELSE res
  /\ UNCHANGED <<sEvents, props, cacheW, entries, entryW, loopVars>>

\* EtcdConfig.get(key, false, nil): the store answers 200, 404 or fails.
GetFetch(t) ==
  /\ th[t].pc = "get_fetch"
  /\ \E fail \in BOOLEAN :
       IF fail \/ ~Exists(th[t].key)
       THEN /\ th' = [th EXCEPT ![t] = Return(th[t])]
            /\ res' = [res EXCEPT ![t] =
                         GetReturn(t, IF fail THEN "ServiceError" ELSE "NoSuchKeyError", "")]
       ELSE /\ th' = [th EXCEPT ![t].pc = "saw_lock", ![t].rsp = StoreGet(th[t].key)]
            /\ UNCHANGED res
  /\ UNCHANGED <<sEvents, cacheVars, entries, entryW, loopVars>>

\* etcdCache.SetAndWatch, called on the registry with a response of the store
SetAndWatchBegin(t, key) ==
  /\ Idle(t)
  /\ Exists(key)
  /\ CacheLockFree
  /\ cacheW' = t
  /\ th' = [th EXCEPT ![t] =
              [Call("cache.SetAndWatch", key, "", NoValue, "saw_set") EXCEPT
                 !.rsp = StoreGet(key)]]
  /\ UNCHANGED <<sEvents, props, cacheR, entries, entryW, res, loopVars>>

\* etcdCache.SetAndWatch: c.Lock()
SetAndWatchLock(t) ==
  /\ th[t].pc = "saw_lock"
  /\ CacheLockFree
  /\ cacheW' = t
  /\ th' = [th EXCEPT ![t].pc = "saw_set"]
  /\ UNCHANGED <<sEvents, props, cacheR, entries, entryW, res, loopVars>>

\* SetAndWatch as Set followed by a Watch of its own: the registry is unlocked
\* once the response is stored.
SetAndWatchSetUnlock(t) ==
  /\ th[t].pc = "saw_set"
  /\ cacheSet(th[t].key, th[t].rsp)
  /\ cacheW' = 0
  /\ th' = [th EXCEPT ![t].pc = "saw_watch", ![t].e = setTarget(th[t].key)]
  /\ UNCHANGED <<sEvents, cacheR, entryW, res, loopVars>>

\* etcdCache.SetAndWatch: e := c.set(key, rsp)
SetAndWatchSet(t) ==
  /\ th[t].pc = "saw_set"
  /\ cacheSet(th[t].key, th[t].rsp)
  /\ th' = [th EXCEPT ![t].pc = "saw_watch", ![t].e = setTarget(th[t].key)]
  /\ UNCHANGED <<sEvents, cacheW, cacheR, entryW, res, loopVars>>

\* etcdCache.SetAndWatch: e.Watch(c.config), c.Unlock(); Get returns the value.
SetAndWatchWatch(t) ==
  /\ th[t].pc = "saw_watch"
  /\ EntryLockFree(th[t].e)
  /\ entryWatch(th[t].e)
  /\ cacheW' = 0
  /\ th' = [th EXCEPT ![t] = Return(th[t])]
  /\ res' = IF th[t].op = "Get"
            THEN [res EXCEPT ![t] = GetReturn(t, NodeValue(th[t].rsp)[1], NodeValue(th[t].rsp)[2])]
            ELSE res
  /\ UNCHANGED <<sEvents, props, cacheR, entryW, tasks, calls, applied>>

----
\* EtcdConfig.Set -> EtcdConfig.set: the PUT with the encoded value.
SetBegin(t, key, v) ==
  /\ Idle(t)
  /\ \E fail \in BOOLEAN :
       IF fail
       THEN /\ res' = [res EXCEPT ![t] = Result("Set", "ServiceError", "", 0, NoValue)]
            /\ UNCHANGED <<sEvents, th>>
       ELSE /\ Len(sEvents) < MaxWrites
            /\ sEvents' = Append(sEvents, Event(key, "set", Encode(v)))
            /\ th' = [th EXCEPT ![t] =
                        [Call("Set", key, "", v, "cset_lock") EXCEPT
                           !.rsp = Rsp("set", Encode(v), sIndex + 1)]]
            /\ UNCHANGED res
  /\ UNCHANGED <<cacheVars, entries, entryW, loopVars>>

\* EtcdConfig.Delete -> EtcdConfig.delete: the DELETE.
DeleteBegin(t, key) ==
  /\ Idle(t)
  /\ \E fail \in BOOLEAN :
       IF fail \/ ~Exists(key)
       THEN /\ res' = [res EXCEPT ![t] =
                         Result("Delete", IF fail THEN "ServiceError" ELSE "NoSuchKeyError",
                                "", 0, NoValue)]
            /\ UNCHANGED <<sEvents, th>>
       ELSE /\ Len(sEvents) < MaxWrites
            /\ sEvents' = Append(sEvents, Event(key, "delete", ""))
            /\ th' = [th EXCEPT ![t] =
                        [Call("Delete", key, "", NoValue, "cset_lock") EXCEPT
                           !.rsp = Rsp("delete", "", sIndex + 1)]]
            /\ UNCHANGED res
  /\ UNCHANGED <<cacheVars, entries, entryW, loopVars>>

\* EtcdConfig.Delete when the store answers the DELETE with a response that
\* has no node: Delete does not look at rsp.Node and goes on to cache.Set.
DeleteNoNode(t, key) ==
  /\ Idle(t)
  /\ Exists(key)
  /\ Len(sEvents) < MaxWrites
  /\ sEvents' = Append(sEvents, Event(key, "delete", ""))
  /\ th' = [th EXCEPT ![t] =
              [Call("Delete", key, "", NoValue, "cset_lock") EXCEPT
                 !.rsp = [action |-> "delete", node |-> FALSE, value |-> "",
                          modified |-> 0]]]
  /\ UNCHANGED <<cacheVars, entries, entryW, res, loopVars>>

\* etcdCache.Set: c.Lock()
CacheSetLock(t) ==
  /\ th[t].pc = "cset_lock"
  /\ CacheLockFree
  /\ cacheW' = t
  /\ th' = [th EXCEPT ![t].pc = "cset_set"]
  /\ UNCHANGED <<sEvents, props, cacheR, entries, entryW, res, loopVars>>

\* etcdCache.Set without its deferred Unlock: the call returns with the
\* registry still locked.
CacheSetSetNoUnlock(t) ==
  /\ th[t].pc = "cset_set"
  /\ cacheSet(th[t].key, th[t].rsp)
  /\ th' = [th EXCEPT ![t] = Return(th[t])]
  /\ res' = [res EXCEPT ![t] =
               IF th[t].op = "Set"
               THEN Result("Set", NodeValue(th[t].rsp)[1], NodeValue(th[t].rsp)[2],
                           th[t].rsp.modified, th[t].val)
               ELSE Result("Delete", "", "", th[t].rsp.modified, NoValue)]
  /\ UNCHANGED <<sEvents, cacheW, cacheR, entryW, loopVars>>

\* etcdCache.Set: c.set(key, rsp), c.Unlock(); Set returns rsp.Node.Value and
\* Delete returns nil.
CacheSetSet(t) ==
  /\ th[t].pc = "cset_set"
  /\ cacheSet(th[t].key, th[t].rsp)
  /\ cacheW' = 0
  /\ th' = [th EXCEPT ![t] = Return(th[t])]
  /\ res' = [res EXCEPT ![t] =
               IF th[t].op = "Set"
               THEN Result("Set", NodeValue(th[t].rsp)[1], NodeValue(th[t].rsp)[2],
                           th[t].rsp.modified, th[t].val)
               ELSE Result("Delete", "", "", th[t].rsp.modified, NoValue)]
  /\ UNCHANGED <<sEvents, cacheR, entryW, loopVars>>

----
\* What CompareAndSwap(key, v, idx) returns.
CasResult(key, v, idx, err, ret, new) ==
  [Result("CompareAndSwap", err, ret, new, v) EXCEPT !.key = key, !.arg = idx]

\* The conditional write sent whatever the index argument is; the store takes
\* a write without a condition as a plain write.
CompareAndSwapUnconditional(t, key, v, idx) ==
  /\ Idle(t)
  /\ Len(sEvents) < MaxWrites
  /\ sEvents' = Append(sEvents, Event(key, "set", Encode(v)))
  /\ th' = [th EXCEPT ![t] =
              [Call("CompareAndSwap", key, "", v, "saw_lock") EXCEPT
                 !.rsp = Rsp("compareAndSwap", Encode(v), sIndex + 1)]]
  /\ res' = [res EXCEPT ![t] = CasResult(key, v, idx, "", Encode(v), sIndex + 1)]
  /\ UNCHANGED <<cacheVars, entries, entryW, loopVars>>

\* EtcdConfig.CompareAndSwap(key, v, idx): index 0 is rejected before any
\* request; a positive index is the modification index the key must have, a
\* negative one asks that the key does not exist.  The store answers 404 for a
\* key it does not hold and error 101 when the condition fails; after a write
\* the cache is refreshed as for Set.  res[t] is the result the call returns.
CompareAndSwapBegin(t, key, v, idx) ==
  /\ Idle(t)
  /\ IF idx = 0
     THEN /\ res' = [res EXCEPT ![t] = CasResult(key, v, idx, "InvalidIndexError", "", 0)]
          /\ UNCHANGED <<sEvents, th>>
     ELSE \E fail \in BOOLEAN :
            LET err == IF fail THEN "ServiceError"
                       ELSE IF idx > 0 /\ ~Exists(key) THEN "NoSuchKeyError"
                       ELSE IF idx > 0 /\ LastEvent(key) # idx THEN "ComparisonFailedError"
                       ELSE IF idx < 0 /\ Exists(key) THEN "ComparisonFailedError"
                       ELSE "" IN
            IF err # ""
            THEN /\ res' = [res EXCEPT ![t] = CasResult(key, v, idx, err, "", 0)]
                 /\ UNCHANGED <<sEvents, th>>
            ELSE /\ Len(sEvents) < MaxWrites
                 /\ sEvents' = Append(sEvents, Event(key, "set", Encode(v)))
                 /\ th' = [th EXCEPT ![t] =
                             [Call("CompareAndSwap", key, "", v, "saw_lock") EXCEPT
                                !.rsp = Rsp("compareAndSwap", Encode(v), sIndex + 1)]]
                 /\ res' = [res EXCEPT ![t] = CasResult(key, v, idx, "", Encode(v), sIndex + 1)]
  /\ UNCHANGED <<cacheVars, entries, entryW, loopVars>>

----
\* An entry no goroutine and no map refers to any more is collected.
Collectable(e) ==
  /\ LoopsOf(e) = {}
  /\ \A t \in Threads : th[t].e # e

\* etcdCache.Delete, called on the registry: c.Lock(); delete(c.props, key)
CacheDelete(t, key) ==
  LET e == props[key] IN
  /\ Idle(t)
  /\ CacheLockFree
  /\ e # 0 /\ ~Collectable(e) => Cardinality(Allocated) < MaxEntries
  /\ props' = [props EXCEPT ![key] = 0]
  /\ entries' = IF e # 0 /\ Collectable(e) THEN [entries EXCEPT ![e] = NoEntry]
                ELSE entries
  /\ UNCHANGED <<sEvents, cacheW, cacheR, entryW, th, res, loopVars>>

\* etcdCacheEntry.AddObserver, called on an entry
EntryAddObserver(t, e, o) ==
  /\ Idle(t)
  /\ entries[e].alloc
  /\ ObserverRoom
  /\ EntryLockFree(e)
  /\ entryAddObserver(e, o)
  /\ UNCHANGED <<sEvents, cacheVars, entryW, th, res, tasks, calls, applied>>

\* etcdCacheEntry.Watch, called on an entry
EntryWatch(t, e) ==
  /\ Idle(t)
  /\ entries[e].alloc
  /\ EntryLockFree(e)
  /\ entryWatch(e)
  /\ UNCHANGED <<sEvents, cacheVars, entryW, th, res, tasks, calls, applied>>

\* etcdCacheEntry.RemoveAllObservers, called on an entry
EntryRemoveAllObservers(t, e) ==
  /\ Idle(t)
  /\ entries[e].alloc
  /\ EntryLockFree(e)
  /\ entries' = [entries EXCEPT ![e].observers = <<>>]
  /\ UNCHANGED <<sEvents, cacheVars, entryW, th, res, loopVars>>

\* The places of etcdCacheEntry.watch that receive from e.finalize: none.
FinalizeReceivers(e) == {l \in LoopsOf(e) : loops[l].pc \in {}}

\* Cancel on a buffered e.finalize: the send completes at once and the flag
\* is cleared, while nothing receives the signal.
EntryCancelBuffered(t, e) ==
  /\ Idle(t)
  /\ entries[e].alloc
  /\ EntryLockFree(e)
  /\ entries' = [entries EXCEPT ![e].watching = FALSE]
  /\ UNCHANGED <<sEvents, cacheVars, entryW, th, res, loopVars>>

\* etcdCacheEntry.Cancel: e.Lock(); if e.watching, the send on the unbuffered
\* e.finalize, which completes only together with a receive.
EntryCancel(t, e) ==
  /\ Idle(t)
  /\ entries[e].alloc
  /\ EntryLockFree(e)
  /\ IF entries[e].watching
     THEN /\ entryW' = [entryW EXCEPT ![e] = t]
          /\ th' = [th EXCEPT ![t] =
                      [Call("e.Cancel", entries[e].key, "", NoValue, "cancel_send")
                         EXCEPT !.e = e]]
     ELSE UNCHANGED <<entryW, th>>
  /\ UNCHANGED <<sEvents, cacheVars, entries, res, loopVars>>

\* etcdCacheEntry.Cancel after the send: e.watching = false, e.Unlock().  The
\* send is a rendezvous with a receive from e.finalize; no step of watch
\* receives, so this step is never enabled and no next-state relation lists it.
CancelSignalled(t) ==
  /\ th[t].pc = "cancel_send"
  /\ FinalizeReceivers(th[t].e) # {}
  /\ entries' = [entries EXCEPT ![th[t].e].watching = FALSE]
  /\ entryW' = [entryW EXCEPT ![th[t].e] = 0]
  /\ th' = [th EXCEPT ![t] = Return(th[t])]
  /\ UNCHANGED <<sEvents, cacheVars, res, loopVars>>

---------------------------------------------------------------------------
(* The reconnect loop, etcdCacheEntry.watch *)

\* The loop taking only a truncated stream for a recycled connection.
BenignTruncation == {"EOF", "ErrUnexpectedEOF"}

\* The loop taking only a timeout for a recycled connection.
BenignTimeout == {"TimeoutError"}

\* Errors of the long-poll the loop takes for a recycled connection.
Benign == {"EOF", "ErrUnexpectedEOF", "TimeoutError"}

\* The errors c.get returns to the loop.
PollErrors == {"EOF", "ErrUnexpectedEOF", "TimeoutError", "ServiceError"}

\* The sleep before the retry, in seconds.
BackoffBase == 1
BackoffMax == 15
\* The delay without the ceiling.
DelayUncapped(errcount) == BackoffBase * (errcount * errcount)

Delay(errcount) ==
  IF BackoffBase * (errcount * errcount) > BackoffMax THEN BackoffMax
  ELSE BackoffBase * (errcount * errcount)

\* The top of an iteration: the snapshot of e.response under the read lock,
\* and the long-poll reaching the store: from the index after the last known
\* one, or from the next change when there is no last known response.
LoopPoll(l) ==
  LET e == loops[l].e
      rsp == entries[e].response IN
  /\ loops[l].on /\ loops[l].pc = "top"
  /\ EntryLockFree(e)
  /\ loops' = [loops EXCEPT ![l].pc = IF ~IsNil(rsp) /\ ~rsp.node THEN "panic" ELSE "poll",
                            ![l].rsp = rsp,
                            ![l].err = "",
                            ![l].wait = IF IsNil(rsp) THEN sIndex + 1 ELSE rsp.modified + 1]
  /\ UNCHANGED <<sEvents, cacheVars, entries, entryW, th, res, tasks, calls, applied>>

\* The long-poll returns a change.
PollReturn(l) ==
  LET i == FirstSince(entries[loops[l].e].key, loops[l].wait) IN
  /\ loops[l].on /\ loops[l].pc = "poll"
  /\ i # 0
  /\ loops' = [loops EXCEPT ![l].pc = "got", ![l].rsp = EventRsp(i), ![l].errcount = 0]
  /\ UNCHANGED <<sEvents, cacheVars, entries, entryW, th, res, tasks, calls, applied>>

\* A successful answer whose body has no node: json.Unmarshal leaves Node nil.
NoNodeRsp(action) == [action |-> action, node |-> FALSE, value |-> "", modified |-> 0]

\* The long-poll returns a successful answer without a node; c.get hands it
\* to the loop as it is.
PollReturnNoNode(l) ==
  /\ loops[l].on /\ loops[l].pc = "poll"
  /\ loops' = [loops EXCEPT ![l].pc = "got", ![l].rsp = NoNodeRsp("get"),
                            ![l].errcount = 0]
  /\ UNCHANGED <<sEvents, cacheVars, entries, entryW, th, res, tasks, calls, applied>>

\* The long-poll fails: a benign error restarts the iteration at once, any
\* other error counts and backs off, for the delay computed from the count.
\* At most max failures are counted in a row.
PollFailTo(l, err, max) ==
  /\ loops[l].on /\ loops[l].pc = "poll"
  /\ err \notin Benign => loops[l].errcount < max
  /\ loops' = [loops EXCEPT ![l].pc = IF err \in Benign THEN "top" ELSE "sleep",
                            ![l].err = err,
                            ![l].errcount = IF err \in Benign THEN 0 ELSE @ + 1,
                            ![l].delay = IF err \in Benign THEN 0
                                         ELSE Delay(loops[l].errcount + 1)]
  /\ UNCHANGED <<sEvents, cacheVars, entries, entryW, th, res, tasks, calls, applied>>

PollFail(l, err) == PollFailTo(l, err, MaxErr)

\* <- time.After(delay)
LoopWake(l) ==
  /\ loops[l].on /\ loops[l].pc = "sleep"
  /\ loops' = [loops EXCEPT ![l].pc = "top", ![l].delay = 0]
  /\ UNCHANGED <<sEvents, cacheVars, entries, entryW, th, res, tasks, calls, applied>>

\* A loop holding the lock of entry e.  The critical sections of watch are
\* one step each (nothing in them blocks), so a loop holds a lock between steps
\* only if it leaves a critical section without the Unlock.
LoopHolds(l, e) == entryW[e] = 0 - l

\* The loop storing an update with the Unlock deferred: the entry stays locked
\* while the observers are started and run.
LoopApplyDeferUnlock(l) ==
  LET e == loops[l].e IN
  /\ loops[l].on /\ loops[l].pc = "got"
  /\ EntryLockFree(e)
  /\ Len(applied) < MaxApply
  /\ entries' = [entries EXCEPT ![e].response = loops[l].rsp]
  /\ entryW' = [entryW EXCEPT ![e] = 0 - l]
  /\ loops' = [loops EXCEPT ![l].pc = "dispatch", ![l].obs = entries[e].observers,
                            ![l].seq = @ + 1]
  /\ applied' = Append(applied, [l |-> l, seq |-> loops[l].seq + 1, e |-> e,
                                 obs |-> entries[e].observers, rsp |-> loops[l].rsp])
  /\ UNCHANGED <<sEvents, cacheVars, th, res, tasks, calls>>

\* e.Lock(); e.response = rsp; the copy of e.observers; e.Unlock()
LoopApply(l) ==
  LET e == loops[l].e IN
  /\ loops[l].on /\ loops[l].pc = "got"
  /\ EntryLockFree(e)
  /\ Len(applied) < MaxApply
  /\ entries' = [entries EXCEPT ![e].response = loops[l].rsp]
  /\ loops' = [loops EXCEPT ![l].pc = "dispatch", ![l].obs = entries[e].observers,
                            ![l].seq = @ + 1]
  /\ applied' = Append(applied, [l |-> l, seq |-> loops[l].seq + 1, e |-> e,
                                 obs |-> entries[e].observers, rsp |-> loops[l].rsp])
  /\ UNCHANGED <<sEvents, cacheVars, entryW, th, res, tasks, calls>>

\* rsp.Node.Value(): the raw value the store holds that does not decode.
BadRaw == "{"
Decodable(raw) == raw # BadRaw
Decode(raw) == raw

\* The observers registered when the update is dispatched, instead of the copy
\* made when it was stored.
InvocationsOfRegistered(l) ==
  {[obs |-> entries[loops[l].e].observers[i], l |-> l, seq |-> loops[l].seq, pos |-> i,
    idx |-> loops[l].rsp.modified, key |-> entries[loops[l].e].key,
    val |-> Decode(loops[l].rsp.value)]
     : i \in 1..Len(entries[loops[l].e].observers)}

\* The goroutines `go o(key, val)` of one update.
Invocations(l) ==
  {[obs |-> loops[l].obs[i], l |-> l, seq |-> loops[l].seq, pos |-> i,
    idx |-> loops[l].rsp.modified, key |-> entries[loops[l].e].key,
    val |-> Decode(loops[l].rsp.value)]
     : i \in 1..Len(loops[l].obs)}

\* The loop calls every observer of the copy itself, o(key, val), and goes on
\* when the last of them has returned.
LoopDispatchInline(l) ==
  /\ loops[l].on /\ loops[l].pc = "dispatch"
  /\ IF loops[l].obs # <<>> /\ Decodable(loops[l].rsp.value)
     THEN /\ tasks' = tasks \cup Invocations(l)
          /\ loops' = [loops EXCEPT ![l].obs = <<>>]
     ELSE /\ \A k \in tasks : k.l # l
          /\ tasks' = tasks
          /\ loops' = [loops EXCEPT ![l].pc = "top", ![l].obs = <<>>]
  /\ UNCHANGED <<sEvents, cacheVars, entries, entryW, th, res, calls, applied>>

\* The observers of the copy started whether the value decodes or not.
LoopDispatchUndecoded(l) ==
  /\ loops[l].on /\ loops[l].pc = "dispatch"
  /\ tasks' = tasks \cup Invocations(l)
  /\ loops' = [loops EXCEPT ![l].pc = "top", ![l].obs = <<>>]
  /\ UNCHANGED <<sEvents, cacheVars, entries, entryW, th, res, calls, applied>>

\* The value is decoded and every observer of the copy is started.  The value
\* is read through rsp.Node: a nil Node is a nil dereference.
LoopDispatch(l) ==
  /\ loops[l].on /\ loops[l].pc = "dispatch"
  /\ tasks' = IF loops[l].rsp.node /\ Decodable(loops[l].rsp.value)
              THEN tasks \cup Invocations(l) ELSE tasks
  /\ loops' = [loops EXCEPT ![l].pc = IF loops[l].rsp.node THEN "top" ELSE "panic",
                            ![l].obs = <<>>]
  /\ UNCHANGED <<sEvents, cacheVars, entries, entryW, th, res, calls, applied>>

\* An observer goroutine runs: o(key, val).
ObserverRun(k) ==
  /\ k \in tasks
  /\ tasks' = tasks \ {k}
  /\ calls' = [calls EXCEPT ![k.obs] =
                   Append(@, [l |-> k.l, seq |-> k.seq, idx |-> k.idx, key |-> k.key,
                              val |-> k.val])]
  /\ UNCHANGED <<sEvents, cacheVars, entries, entryW, th, res, loops, applied>>

----
\* The status codes of net/http the requests tell apart, and one more.
StatusOK == 200
StatusCreated == 201
StatusBadRequest == 400
StatusNotFound == 404
StatusInternalServerError == 500
Statuses ==
  {StatusOK, StatusCreated, StatusBadRequest, StatusNotFound, StatusInternalServerError}

\* Bodies of an answer: one json.Unmarshal takes, one it does not.
Bodies == {"{}", BadRaw}

\* json.Unmarshal(data, etc) of a body read to the end
Unmarshal(body) == IF Decodable(body) THEN "" ELSE "SyntaxError"

\* EtcdConfig.get from the answer on: the error it returns ("": the response).
get(status, body) ==
  CASE status = StatusOK -> Unmarshal(body)
    [] status = StatusNotFound -> "NoSuchKeyError"
    [] status = StatusBadRequest -> "ClientError"
    [] OTHER -> "ServiceError"

\* EtcdConfig.set from the answer on
set(status, body) ==
  CASE status \in {StatusOK, StatusCreated} -> Unmarshal(body)
    [] status = StatusBadRequest -> "ClientError"
    [] OTHER -> "ServiceError"

\* EtcdConfig.delete from the answer on
delete(status, body) ==
  CASE status = StatusOK -> Unmarshal(body)
    [] status = StatusNotFound -> "NoSuchKeyError"
    [] status = StatusBadRequest -> "ClientError"
    [] OTHER -> "ServiceError"

Requests == {"get", "set", "delete"}

\* Goroutine t makes request op and the store answers with status and body.
Answer(t, op, status, body) ==
  LET err == CASE op = "get" -> get(status, body)
               [] op = "set" -> set(status, body)
               [] OTHER -> delete(status, body) IN
  /\ Idle(t)
  /\ res' = [res EXCEPT ![t] =
               [Result(op, err, IF err = "" THEN body ELSE "", 0, NoValue) EXCEPT
                  !.status = status, !.body = body]]
  /\ UNCHANGED <<sEvents, cacheVars, entries, entryW, th, loopVars>>

----
\* The configurations a suite is made of: a MemoryConfig with its map (over
\* the one key: absent, or one of two values), and a configuration whose Get
\* fails with an error of its own, as EtcdConfig.Get does when the store fails.
MemoryConfig(config) == [kind |-> "memory", config |-> config, err |-> ""]
FailingConfig(err) == [kind |-> "failing", config |-> <<>>, err |-> err]
NoMap == [k \in {} |-> ""]
Configs ==
  {MemoryConfig(NoMap)}
    \cup {MemoryConfig([k \in Keys |-> v]) : v \in {"p", "q"}}
    \cup {FailingConfig("ServiceError")}

\* MemoryConfig.Get: <<value, error>>
MemoryGet(c, key) ==
  IF key \in DOMAIN c.config THEN <<c.config[key], "">> ELSE <<"", "NoSuchKeyError">>

\* c.Get(key) of a configuration of the suite
ConfigGet(c, key) == IF c.kind = "memory" THEN MemoryGet(c, key) ELSE <<"", c.err>>

\* The suites: up to MaxSuite configurations, highest priority first.
RECURSIVE SeqsUpTo(_, _)
SeqsUpTo(S, n) ==
  IF n = 0 THEN {<<>>}
  ELSE SeqsUpTo(S, n - 1) \cup {Append(q, x) : q \in SeqsUpTo(S, n - 1), x \in S}

Suites == SeqsUpTo(Configs, MaxSuite)

\* The loop of a Get that goes on to the next configuration after any error.
RECURSIVE SuiteGetSkipErrors(_, _, _)
RECURSIVE SuiteGet(_, _, _)
SuiteGetSkipErrors(suite, i, key) ==
  IF i > Len(suite) THEN <<"", "NoSuchKeyError", Len(suite)>>
  ELSE LET r == ConfigGet(suite[i], key) IN
       IF r[2] = "" THEN <<r[1], "", i>>
       ELSE SuiteGetSkipErrors(suite, i + 1, key)

\* ConfigSuite.Get from configuration i on: <<value, error, configurations
\* asked>>.
SuiteGet(suite, i, key) ==
  IF i > Len(suite) THEN <<"", "NoSuchKeyError", Len(suite)>>
  ELSE LET r == ConfigGet(suite[i], key) IN
       IF r[2] = "" THEN <<r[1], "", i>>
       ELSE IF r[2] # "NoSuchKeyError" THEN <<"", r[2], i>>
       ELSE SuiteGet(suite, i + 1, key)

\* Goroutine t calls Get(key) on a suite.
ConfigSuiteGet(t, suite, key) ==
  LET r == SuiteGet(suite, 1, key) IN
  /\ Idle(t)
  /\ res' = [res EXCEPT ![t] =
               [Result("Suite.Get", r[2], r[1], r[3], NoValue) EXCEPT
                  !.key = key, !.suite = suite]]
  /\ UNCHANGED <<sEvents, cacheVars, entries, entryW, th, loopVars>>

----
\* Another client of the store writes the key.
ExtWrite(key, raw) ==
  /\ Len(sEvents) < MaxWrites
  /\ sEvents' = Append(sEvents, Event(key, "set", raw))
  /\ UNCHANGED <<cacheVars, entries, entryW, th, res, loopVars>>

---------------------------------------------------------------------------
\* The client is constructed against a store that holds nothing, or holds the
\* key already.
Init ==
  /\ sEvents \in {<<>>, <<Event("a.b.c", "set", "x")>>}
  /\ props = [k \in Keys |-> 0]
  /\ cacheW = 0
  /\ cacheR = {}
  /\ entries = [e \in EntryIds |-> NoEntry]
  /\ entryW = [e \in EntryIds |-> 0]
  /\ th = [t \in Threads |-> IdleThread]
  /\ res = [t \in Threads |-> NoResult]
  /\ loops = [l \in LoopIds |-> NoLoop]
  /\ tasks = {}
  /\ calls = [o \in Observers |-> <<>>]
  /\ applied = <<>>

\* EtcdConfig.Watch
WatchCall(t) ==
  \/ \E key \in Keys, o \in Observers : WatchBegin(t, key, o)
  \/ GetOrCreateLookup(t)
  \/ GetOrCreateInsert(t)
  \/ CacheAddObserverEntry(t)

\* EtcdConfig.Get
GetCall(t) ==
  \/ \E key \in Keys : GetBegin(t, key)
  \/ CacheGetRead(t)
  \/ GetFetch(t)
  \/ SetAndWatchLock(t)
  \/ SetAndWatchSet(t)
  \/ SetAndWatchWatch(t)

\* EtcdConfig.Set and EtcdConfig.Delete
WriteCall(t) ==
  \/ \E key \in Keys, v \in SetValues : SetBegin(t, key, v)
  \/ \E key \in Keys : DeleteBegin(t, key)
  \/ CacheSetLock(t)
  \/ CacheSetSet(t)

\* Calls made on the registry and on an entry directly
EntryCall(t) ==
  \/ \E key \in Keys : CacheDelete(t, key)
  \/ \E key \in Keys : SetAndWatchBegin(t, key) \/ SetAndWatchSet(t) \/ SetAndWatchWatch(t)
  \/ \E e \in EntryIds, o \in Observers : EntryAddObserver(t, e, o)
  \/ \E e \in EntryIds : EntryWatch(t, e)
  \/ \E e \in EntryIds : EntryRemoveAllObservers(t, e)
  \/ \E e \in EntryIds : EntryCancel(t, e)

\* The loop while the store has nothing new for it
LoopIdle(l) ==
  \/ LoopPoll(l)
  \/ \E err \in PollErrors : PollFail(l, err)
  \/ LoopWake(l)

\* The loop taking a change
LoopUpdate(l) ==
  \/ PollReturn(l)
  \/ LoopApply(l)
  \/ LoopDispatch(l)

\* The lifecycle of entries and loops: every call that creates, unlinks,
\* starts or cancels, against a store nobody writes.
Next ==
  \/ \E t \in Threads : WatchCall(t) \/ EntryCall(t)
  \/ \E l \in LoopIds : LoopIdle(l)

Spec == Init /\ [][Next]_vars


\* Two goroutines each make their first Watch call on a key that has no entry,
\* while the store is written and the loop runs.
FirstWatchNext ==
  \/ \E t \in Threads, key \in Keys : WatchOnce(t, key)
  \/ \E t \in Threads : GetOrCreateLookup(t) \/ GetOrCreateInsert(t) \/ CacheAddObserverEntry(t)
  \/ \E l \in LoopIds : LoopIdle(l) \/ LoopUpdate(l)
  \/ \E k \in tasks : ObserverRun(k)
  \/ \E key \in Keys, raw \in ExtValues : ExtWrite(key, raw)

FirstWatchSpec == Init /\ [][FirstWatchNext]_vars


\* Watch calls and Cancel calls on the entries they create.  The Go scheduler
\* runs every goroutine that can take a step: each loop and each call under way
\* is weakly fair.
CancelNext ==
  \/ \E t \in Threads : WatchCall(t)
  \/ \E t \in Threads, e \in EntryIds : EntryCancel(t, e)
  \/ \E l \in LoopIds : LoopIdle(l)

CallFair(t) ==
  WF_vars(GetOrCreateLookup(t) \/ GetOrCreateInsert(t) \/ CacheAddObserverEntry(t))

CancelSpec ==
  /\ Init /\ [][CancelNext]_vars
  /\ \A l \in LoopIds : WF_vars(LoopIdle(l))
  /\ \A t \in Threads : CallFair(t)


\* Another client writes the key once every Watch call has returned.
WriteAfterWatch(key, raw) ==
  /\ \A t \in Threads : th[t].pc = "done"
  /\ ExtWrite(key, raw)

\* Each goroutine registers its observer, and the key is written only after
\* that.  Every goroutine that can take a step is scheduled; a long-poll may
\* fail any number of times, but one that could return a change infinitely
\* often does return it.
WatchedNext ==
  \/ \E t \in Threads, key \in Keys : WatchOnce(t, key)
  \/ \E t \in Threads : GetOrCreateLookup(t) \/ GetOrCreateInsert(t) \/ CacheAddObserverEntry(t)
  \/ \E key \in Keys, raw \in ExtValues : WriteAfterWatch(key, raw)
  \/ \E l \in LoopIds : LoopIdle(l) \/ LoopUpdate(l)
  \/ \E k \in tasks : ObserverRun(k)

LoopFair(l) ==
  /\ WF_vars(LoopPoll(l) \/ LoopWake(l) \/ LoopApply(l) \/ LoopDispatch(l))
  /\ SF_vars(PollReturn(l))

WatchedSpec ==
  /\ Init /\ [][WatchedNext]_vars
  /\ \A l \in LoopIds : LoopFair(l)
  /\ \A t \in Threads : CallFair(t)
  /\ WF_vars(\E k \in tasks : ObserverRun(k))


\* One goroutine registers and removes observers while the key is written and
\* the loop of the key delivers every change.
NotifyNext ==
  \/ WatchCall(1)
  \/ \E e \in EntryIds : EntryRemoveAllObservers(1, e)
  \/ \E key \in Keys, raw \in ExtValues : ExtWrite(key, raw)
  \/ \E l \in LoopIds : LoopPoll(l) \/ LoopUpdate(l)
  \/ \E k \in tasks : ObserverRun(k)

NotifySpec == Init /\ [][NotifyNext]_vars


\* One goroutine reads, writes and deletes the key through the client, one call
\* after the other, and the loop a Get arms keeps the cached response current.
ClientNext ==
  \/ GetCall(1) \/ WriteCall(1)
  \/ \E l \in LoopIds : LoopPoll(l) \/ LoopUpdate(l)

ClientSpec == Init /\ [][ClientNext]_vars


\* One goroutine registers observers, writes and deletes the key through the
\* client, while the loop of the key stores the changes (the observers it
\* starts have not run yet).
DeleteNext ==
  \/ WatchCall(1) \/ WriteCall(1)
  \/ \E l \in LoopIds : LoopPoll(l) \/ LoopUpdate(l)

DeleteSpec == Init /\ [][DeleteNext]_vars


\* Goroutine 1 writes and deletes the key through the client, which caches the
\* responses without a loop; another client writes the key; goroutine 2 makes
\* its Watch call at some point.
ReplayNext ==
  \/ WriteCall(1)
  \/ \E key \in Keys : WatchOnce(2, key)
  \/ GetOrCreateLookup(2) \/ GetOrCreateInsert(2) \/ CacheAddObserverEntry(2)
  \/ \E key \in Keys, raw \in ExtValues : ExtWrite(key, raw)
  \/ \E l \in LoopIds : LoopPoll(l) \/ LoopUpdate(l)
  \/ \E k \in tasks : ObserverRun(k)

ReplaySpec == Init /\ [][ReplayNext]_vars


\* The index arguments of CompareAndSwap: create-only, invalid, and every index
\* the store can have reached.
CasIndices == -1..MaxWrites

\* The goroutines make conditional writes of the key, which another client
\* writes too (the loop a successful write arms has not polled yet).
CasNext ==
  \/ \E t \in Threads, key \in Keys, v \in SetValues, idx \in CasIndices :
       CompareAndSwapBegin(t, key, v, idx)
  \/ \E t \in Threads : SetAndWatchLock(t) \/ SetAndWatchSet(t) \/ SetAndWatchWatch(t)
  \/ \E key \in Keys, raw \in ExtValues : ExtWrite(key, raw)

CasSpec == Init /\ [][CasNext]_vars


\* One goroutine registers an observer; the long-polls of the loop fail, up to
\* MaxFailures times in a row, or return the changes another client makes.
BackoffNext ==
  \/ \E key \in Keys : WatchOnce(1, key)
  \/ GetOrCreateLookup(1) \/ GetOrCreateInsert(1) \/ CacheAddObserverEntry(1)
  \/ \E key \in Keys, raw \in ExtValues : ExtWrite(key, raw)
  \/ \E l \in LoopIds :
       \/ LoopPoll(l)
       \/ \E err \in PollErrors : PollFailTo(l, err, MaxFailures)
       \/ LoopWake(l)
       \/ LoopUpdate(l)
  \/ \E k \in tasks : ObserverRun(k)

BackoffSpec == Init /\ [][BackoffNext]_vars


\* The observer whose invocations never return.
SlowObserver == "o1"

\* An invocation of another observer runs.
OtherObserverRun(k) == k.obs # SlowObserver /\ ObserverRun(k)

\* Each goroutine registers its observer and the key is written after that;
\* the invocations of the slow observer never return, every other goroutine
\* that can take a step is scheduled.
StallNext ==
  \/ \E t \in Threads, key \in Keys : WatchOnce(t, key)
  \/ \E t \in Threads : GetOrCreateLookup(t) \/ GetOrCreateInsert(t) \/ CacheAddObserverEntry(t)
  \/ \E key \in Keys, raw \in ExtValues : WriteAfterWatch(key, raw)
  \/ \E l \in LoopIds : LoopPoll(l) \/ LoopUpdate(l)
  \/ \E k \in tasks : OtherObserverRun(k)

StallSpec ==
  /\ Init /\ [][StallNext]_vars
  /\ \A l \in LoopIds : LoopFair(l)
  /\ \A t \in Threads : CallFair(t)
  /\ WF_vars(\E k \in tasks : OtherObserverRun(k))



\* Goroutine 1 registers its observer, whose invocations never return;
\* goroutine 2 reads the key through the client while another client writes it
\* and the loop stores the changes.
BlockedNext ==
  \/ \E key \in Keys : WatchOnce(1, key)
  \/ GetOrCreateLookup(1) \/ GetOrCreateInsert(1) \/ CacheAddObserverEntry(1)
  \/ GetCall(2)
  \/ \E key \in Keys, raw \in ExtValues : ExtWrite(key, raw)
  \/ \E l \in LoopIds : LoopPoll(l) \/ LoopUpdate(l)

BlockedSpec == Init /\ [][BlockedNext]_vars



\* Goroutine 1 reads, writes and deletes the key through the client while
\* goroutine 2 registers observers, and the loops poll the store.
LockNext ==
  \/ GetCall(1) \/ WriteCall(1) \/ WatchCall(2)
  \/ \E l \in LoopIds : LoopPoll(l) \/ LoopUpdate(l)

LockSpec == Init /\ [][LockNext]_vars



\* The goroutines make requests and the store answers each with any status and
\* body.
AnswerNext ==
  \E t \in Threads, op \in Requests, status \in Statuses, body \in Bodies :
    Answer(t, op, status, body)

AnswerSpec == Init /\ [][AnswerNext]_vars



\* Goroutine 1 reads the key through the client (a read that finds no
\* response fetches it and calls SetAndWatch); goroutine 2 registers observers
\* and unlinks the key's entry; another client writes the key and the loops run.
RegistryNext ==
  \/ GetCall(1) \/ WatchCall(2)
  \/ \E key \in Keys : CacheDelete(2, key)
  \/ \E key \in Keys, raw \in ExtValues : ExtWrite(key, raw)
  \/ \E l \in LoopIds : LoopPoll(l) \/ LoopUpdate(l)

RegistrySpec == Init /\ [][RegistryNext]_vars



\* A goroutine calls Get on suites of every make-up.
SuiteNext == \E suite \in Suites, key \in Keys : ConfigSuiteGet(1, suite, key)

SuiteSpec == Init /\ [][SuiteNext]_vars



\* One goroutine registers an observer; another client writes the key, with
\* values that decode and with one that does not; a long-poll of the loop may
\* fail before it returns a change.
DecodeNext ==
  \/ \E key \in Keys : WatchOnce(1, key)
  \/ GetOrCreateLookup(1) \/ GetOrCreateInsert(1) \/ CacheAddObserverEntry(1)
  \/ \E key \in Keys, raw \in ExtValues \cup {BadRaw} : ExtWrite(key, raw)
  \/ \E l \in LoopIds : LoopIdle(l) \/ LoopUpdate(l)
  \/ \E k \in tasks : ObserverRun(k)

DecodeSpec == Init /\ [][DecodeNext]_vars



\* One goroutine reads, writes, deletes and watches the key through the
\* client; the store may answer a DELETE or a long-poll with a response that
\* has no node.
NoNodeNext ==
  \/ GetCall(1) \/ WriteCall(1) \/ WatchCall(1)
  \/ \E key \in Keys : DeleteNoNode(1, key)
  \/ \E l \in LoopIds : LoopPoll(l) \/ LoopUpdate(l) \/ PollReturnNoNode(l)

NoNodeSpec == Init /\ [][NoNodeNext]_vars



\* A Set made once the Watch call of goroutine 2 has returned.
SetAfterWatch(t, key, v) == th[2].pc = "done" /\ SetBegin(t, key, v)

\* Goroutine 2 registers its observer; goroutine 1 reads and deletes the key
\* through the client, and writes it once the observer is registered; another
\* client writes the key too, and the loop delivers the changes.
RefreshNext ==
  \/ \E key \in Keys : WatchOnce(2, key)
  \/ GetOrCreateLookup(2) \/ GetOrCreateInsert(2) \/ CacheAddObserverEntry(2)
  \/ GetCall(1)
  \/ \E key \in Keys, v \in SetValues : SetAfterWatch(1, key, v)
  \/ \E key \in Keys : DeleteBegin(1, key)
  \/ CacheSetLock(1) \/ CacheSetSet(1)
  \/ \E key \in Keys, raw \in ExtValues : ExtWrite(key, raw)
  \/ \E l \in LoopIds : LoopPoll(l) \/ LoopUpdate(l)
  \/ \E k \in tasks : ObserverRun(k)

RefreshSpec == Init /\ [][RefreshNext]_vars



\* Goroutine 1 reads and writes the key through the client (registry Get,
\* SetAndWatch and Set, entry Response and SetResponse); goroutine 2 registers
\* its observer (registry and entry AddObserver), unlinks the key's entry and
\* calls Watch on the entries; the loops run.  Nobody calls Cancel.
LockOrderNext ==
  \/ GetCall(1)
  \/ \E key \in Keys : SetBegin(1, key, StrValue("v"))
  \/ CacheSetLock(1) \/ CacheSetSet(1)
  \/ \E key \in Keys : WatchBegin(2, key, ObsOf(2))
  \/ GetOrCreateLookup(2) \/ GetOrCreateInsert(2) \/ CacheAddObserverEntry(2)
  \/ \E key \in Keys : CacheDelete(2, key)
  \/ \E e \in EntryIds : EntryWatch(2, e)
  \/ \E l \in LoopIds : LoopPoll(l) \/ LoopUpdate(l)

LockOrderSpec == Init /\ [][LockOrderNext]_vars

---------------------------------------------------------------------------
(* C1..C33 *)

\* C1: under every interleaving of AddObserver, Watch and SetAndWatch calls on
\* an entry, at most one reconnect loop runs for the entry.
C1_OneLoopPerEntry == \A e \in EntryIds : Cardinality(LoopsOf(e)) <= 1

\* An entry that AddObserver calls and a SetAndWatch call have all acted on.
C1_Witness ==
  \E e \in EntryIds :
    /\ Len(entries[e].observers) >= 2
    /\ ~IsNil(entries[e].response)
    /\ Cardinality(LoopsOf(e)) = 1

Count(seq, o) == Cardinality({i \in 1..Len(seq) : seq[i] = o})

\* C2: once the concurrent first Watch calls on a key without an entry have
\* returned, the key has exactly one entry, every caller's observer is
\* registered on it, and exactly one loop has been started.
C2_FirstWatchOneEntry ==
  (\A t \in Threads : th[t].pc = "done") =>
    \A key \in Keys :
      /\ props[key] # 0
      /\ Allocated = {props[key]}
      /\ \A o \in Observers :
           Count(entries[props[key]].observers, o) = Cardinality({t \in Threads : ObsOf(t) = o})
      /\ Running = LoopsOf(props[key])
      /\ Cardinality(Running) = 1

\* Both calls have returned, and they overlapped: the second registered on
\* the entry the first created.
C2_Witness ==
  /\ \A t \in Threads : th[t].pc = "done"
  /\ \E e \in EntryIds : Len(entries[e].observers) = NThreads

\* C3: after any sequence of registry calls, at most one reconnect loop runs
\* per key.
C3_OneLoopPerKey ==
  \A key \in Keys :
    Cardinality({l \in Running : entries[loops[l].e].key = key}) <= 1

\* C5: a Cancel call that has reached its send has a receiver to complete
\* with, so that it returns and releases the entry lock.
C5_CancelReturns ==
  \A t \in Threads : th[t].pc = "cancel_send" => FinalizeReceivers(th[t].e) # {}

\* C4: once Cancel has been called on a watching entry, eventually no loop
\* runs for the entry and the entry is idle (watching = false).
C4_CancelStopsLoop ==
  \A e \in EntryIds :
    (\E t \in Threads : th[t].pc = "cancel_send" /\ th[t].e = e)
      ~> (LoopsOf(e) = {} /\ ~entries[e].watching)

\* C6: an observer receives the updates of a key written after its
\* registration in the order of the store: the indices of the invocations it
\* has received never decrease.
C6_InStoreOrder ==
  \A o \in Observers :
    \A i, j \in 1..Len(calls[o]) : i < j => calls[o][i].idx <= calls[o][j].idx

\* Observer o has been invoked with the value of change i or of a later one.
Delivered(o, i) == \E n \in 1..Len(calls[o]) : calls[o][n].idx >= i

\* Every Watch call has returned and the change i has not been written yet.
WatchedBefore(i) == (\A t \in Threads : th[t].pc = "done") /\ Len(sEvents) < i

\* C7: a value written after Watch has returned is eventually delivered to the
\* observer, or a later value is.
C7_LatestDelivered ==
  \A t \in Threads, i \in 1..MaxWrites :
    [](WatchedBefore(i) => [](Len(sEvents) >= i => <>Delivered(ObsOf(t), i)))

\* The loop has finished dispatching the update a.
Dispatched(a) == loops[a.l].seq > a.seq \/ loops[a.l].pc # "dispatch"

\* The invocations of observer o for the update a: started, and received.
PendingFor(a, o) == Cardinality({k \in tasks : k.l = a.l /\ k.seq = a.seq /\ k.obs = o})
ReceivedFor(a, o) == {n \in 1..Len(calls[o]) : calls[o][n].l = a.l /\ calls[o][n].seq = a.seq}

\* C8: for every change the loop has stored and dispatched, each observer
\* registered at that moment is invoked exactly once, with the key and the new
\* value; an observer not registered then (all were removed before) is not
\* invoked for it.
C8_EachObserverOnce ==
  \A n \in 1..Len(applied) :
    LET a == applied[n] IN
    \A o \in Observers :
      /\ Dispatched(a) /\ Decodable(a.rsp.value) =>
           PendingFor(a, o) + Cardinality(ReceivedFor(a, o)) = Count(a.obs, o)
      /\ Count(a.obs, o) = 0 => PendingFor(a, o) + Cardinality(ReceivedFor(a, o)) = 0
      /\ \A c \in ReceivedFor(a, o) :
           calls[o][c].key = entries[a.e].key /\ calls[o][c].val = Decode(a.rsp.value)

\* A change both observers have received once each, then a change stored and
\* dispatched after RemoveAllObservers that reached neither.
C8_Witness ==
  \E n, m \in 1..Len(applied) :
    /\ n < m
    /\ \A o \in Observers : Count(applied[n].obs, o) = 1 /\ Len(calls[o]) = 1
    /\ applied[m].obs = <<>> /\ Dispatched(applied[m]) /\ Decodable(applied[m].rsp.value)
    /\ tasks = {}

\* C9: a Get that follows this goroutine's successful Delete of the key, with
\* no write to the key in between, returns NoSuchKeyError.
C9_GetAfterDelete ==
  \A t \in Threads :
    res[t].op = "Get" /\ res[t].pop = "Delete" /\ res[t].fresh =>
      res[t].err = "NoSuchKeyError"

\* C10: a Get that follows this goroutine's successful Set(k, v), with no write
\* to k in between, returns the encoding of v the store holds.
C10_SetGetRoundTrip ==
  \A t \in Threads :
    res[t].op = "Get" /\ res[t].pop = "Set" /\ res[t].fresh =>
      res[t].err = "" /\ res[t].ret = Encode(res[t].pval)

\* C11: every Get fetches from the store whatever the cache holds: the step
\* that reads the cache is always followed by the request to the store, never
\* by the return of the call.
C11_GetAlwaysFetches ==
  [][\A t \in Threads :
       th[t].pc = "cget_read" /\ th'[t].pc # "cget_read" => th'[t].pc = "get_fetch"]_vars

\* C12: when a successful Set returns, the entry of the key holds the response
\* of the write and its loop is armed (watching = true).
C12_SetArmsWatch ==
  [][\A t \in Threads :
       th[t].pc = "cset_set" /\ th[t].op = "Set" /\ th'[t].pc # "cset_set" =>
         /\ props'[th[t].key] # 0
         /\ entries'[props'[th[t].key]].response = th[t].rsp
         /\ entries'[props'[th[t].key]].watching]_vars

\* C13: the step that completes a successful Delete puts the delete response
\* in the key's entry and changes neither its watching flag, nor its observers,
\* nor the loops; a Delete that fails changes nothing in the cache.
C13_DeleteFrame ==
  [][\A t \in Threads :
       /\ th[t].pc = "cset_set" /\ th[t].op = "Delete" /\ th'[t].pc # "cset_set" =>
            LET key == th[t].key
                e == props'[key] IN
            /\ e # 0
            /\ entries'[e].response = th[t].rsp
            /\ IF props[key] # 0
               THEN /\ e = props[key]
                    /\ entries'[e].watching = entries[e].watching
                    /\ entries'[e].observers = entries[e].observers
               ELSE ~entries'[e].watching /\ entries'[e].observers = <<>>
            /\ loops' = loops
       /\ res'[t] # res[t] /\ res'[t].op = "Delete" /\ res'[t].err # "" =>
            entries' = entries /\ props' = props /\ loops' = loops]_vars

\* A Delete has succeeded on a key whose entry is watching and has an observer.
C13_Witness ==
  \E t \in Threads :
    /\ res[t].op = "Delete" /\ res[t].err = ""
    /\ props["a.b.c"] # 0
    /\ entries[props["a.b.c"]].watching
    /\ entries[props["a.b.c"]].observers # <<>>
    /\ entries[props["a.b.c"]].response.action = "delete"

\* C14: the first notification an observer receives carries a change made
\* after its Watch call: its index is greater than the index of the store at
\* the call.
C14_FirstChangeAfterWatch ==
  \A t \in Threads :
    res[t].op = "Watch" /\ calls[ObsOf(t)] # <<>> => calls[ObsOf(t)][1].idx > res[t].idx

\* C15: CompareAndSwap(key, value, 0) fails with InvalidIndexError, and the
\* step changes neither the store nor the cache and starts no call.
C15_CasZeroRejected ==
  [][\A t \in Threads :
       res'[t] # res[t] /\ res'[t].op = "CompareAndSwap" /\ res'[t].arg = 0 =>
         /\ res'[t].err = "InvalidIndexError"
         /\ sEvents' = sEvents
         /\ props' = props /\ entries' = entries /\ loops' = loops
         /\ th' = th]_vars

\* CompareAndSwap with index 0 has returned on a key the store holds.
C15_Witness ==
  \E t \in Threads :
    /\ res[t].op = "CompareAndSwap" /\ res[t].arg = 0 /\ res[t].err = "InvalidIndexError"
    /\ Exists(res[t].key)

\* C16: a CompareAndSwap with a positive index on a key the store holds, whose
\* request the store answers, writes the value exactly when the key's
\* modification index equals the argument: then it returns a greater index;
\* otherwise it returns ComparisonFailedError and the store is unchanged.
C16_CasIffIndexMatches ==
  [][\A t \in Threads :
       /\ res'[t] # res[t] /\ res'[t].op = "CompareAndSwap" /\ res'[t].arg > 0
       /\ res'[t].err # "ServiceError" /\ Exists(res'[t].key)
       => IF LastEvent(res'[t].key) = res'[t].arg
          THEN /\ res'[t].err = ""
               /\ sEvents' = Append(sEvents, Event(res'[t].key, "set", Encode(res'[t].val)))
               /\ res'[t].idx > res'[t].arg
               /\ res'[t].idx = Len(sEvents')
          ELSE /\ res'[t].err = "ComparisonFailedError"
               /\ sEvents' = sEvents]_vars

\* One CompareAndSwap has failed on a stale index and another has succeeded
\* on the current one.
C16_Witness ==
  \E t, u \in Threads :
    /\ res[t].op = "CompareAndSwap" /\ res[t].arg > 0 /\ res[t].err = "ComparisonFailedError"
    /\ res[u].op = "CompareAndSwap" /\ res[u].arg > 0 /\ res[u].err = ""
    /\ res[u].idx > res[u].arg

\* min(N * N, 15), in seconds
SquareCapped(N) == IF N * N < 15 THEN N * N ELSE 15

\* The long-poll of loop l ends in this step, with error err.
PollEndsWith(l, err) ==
  loops[l].pc = "poll" /\ loops'[l].pc # "poll" /\ loops'[l].err = err

\* C17: each failure that is not benign adds one to the count N of the loop
\* and the loop then sleeps min(N * N, 15) seconds; a long-poll that succeeds
\* sets N to zero.
C17_BackoffSquareCapped ==
  [][\A l \in LoopIds :
       /\ loops[l].pc = "poll" /\ loops'[l].pc = "sleep" =>
            /\ loops'[l].errcount = loops[l].errcount + 1
            /\ loops'[l].delay = SquareCapped(loops'[l].errcount)
       /\ loops[l].pc = "poll" /\ loops'[l].pc = "got" => loops'[l].errcount = 0]_vars

\* The sixth failure in a row: the loop sleeps the ceiling.
C17_Witness ==
  \E l \in LoopIds : loops[l].pc = "sleep" /\ loops[l].errcount = 6 /\ loops[l].delay = 15

C19_TruncationRetriesAtOnce ==
  [][\A l \in LoopIds :
       PollEndsWith(l, "EOF") \/ PollEndsWith(l, "ErrUnexpectedEOF") =>
         /\ loops'[l].pc = "top"
         /\ loops'[l].errcount = 0
         /\ loops'[l].delay = 0
         /\ entries' = entries
         /\ tasks' = tasks /\ calls' = calls]_vars

\* The stream of a long-poll was truncated on an entry that holds a response
\* and an observer, and the loop is about to retry.
C19_Witness ==
  \E l \in LoopIds :
    /\ loops[l].on /\ loops[l].err \in {"EOF", "ErrUnexpectedEOF"} /\ loops[l].pc = "top"
    /\ ~IsNil(entries[loops[l].e].response)
    /\ entries[loops[l].e].observers # <<>>

\* C20: while the invocations of one observer never return, the loop still
\* stores every change it has fetched, dispatches it and issues its next
\* long-poll, and every other observer of the copy still receives every
\* change the loop has stored.
C20_SlowObserverStallsNobody ==
  /\ \A l \in LoopIds : (loops[l].pc = "got") ~> (loops[l].pc = "dispatch")
  /\ \A l \in LoopIds : (loops[l].pc = "dispatch") ~> (loops[l].pc = "poll")
  /\ \A n \in 1..MaxApply : \A o \in Observers \ {SlowObserver} :
       (Len(applied) >= n /\ Count(applied[n].obs, o) > 0 /\ Decodable(applied[n].rsp.value))
         ~> (Len(applied) >= n /\ ReceivedFor(applied[n], o) # {})

\* The first invocation of the slow observer has not returned, the loop has
\* stored a later change and the other observer has received it.
C20_Witness ==
  /\ \E k \in tasks : k.obs = SlowObserver /\ k.seq = 1
  /\ Len(applied) >= 2
  /\ \E o \in Observers \ {SlowObserver} : ReceivedFor(applied[2], o) # {}

\* C21: while an invocation of an observer is outstanding (started and not
\* returned), the loop that started it does not hold the lock of its entry, and
\* a Response() read of an entry finds the lock free.
C21_NoLockWhileObserving ==
  tasks # {} =>
    /\ \A k \in tasks : ~LoopHolds(k.l, loops[k.l].e)
    /\ \A t \in Threads :
         th[t].pc = "cget_read" /\ props[th[t].key] # 0
           => EntryLockFree(props[th[t].key])

\* An invocation is outstanding and a goroutine is at the Response() read of
\* the entry the update was stored in.
C21_Witness ==
  \E k \in tasks, t \in Threads :
    /\ th[t].pc = "cget_read"
    /\ props[th[t].key] = loops[k.l].e
    /\ entries[loops[k.l].e].response.modified = k.idx

\* C22: a goroutine whose store request is in flight holds no lock.  A write
\* or delete is sent and answered in the step that leaves "idle", a fetch is in
\* flight at "get_fetch" and the long-poll of a loop at "poll".
C22_NoRequestUnderLock ==
  /\ \A t \in Threads : th[t].pc \in {"idle", "get_fetch"} => ~Holds(t)
  /\ \A l \in Running : loops[l].pc = "poll" => \A e \in EntryIds : ~LoopHolds(l, e)

\* A fetch and a long-poll are in flight while another goroutine is inside the
\* registry's critical section.
C22_Witness ==
  \E t \in Threads, u \in Threads, l \in Running :
    /\ th[t].pc = "get_fetch"
    /\ loops[l].pc = "poll"
    /\ cacheW = u

\* C23: whatever the request (get, set or delete), an answer with status 200
\* or 201 and a body that decodes gives the response, 404 gives NoSuchKeyError,
\* 400 with a body that does not decode gives ClientError, and any other status
\* with a body that does not decode gives ServiceError.
C23_OneClassification ==
  \A t \in Threads :
    LET r == res[t] IN
    r.op \in Requests =>
      /\ r.status \in {StatusOK, StatusCreated} /\ Decodable(r.body) => r.err = ""
      /\ r.status = StatusNotFound => r.err = "NoSuchKeyError"
      /\ r.status = StatusBadRequest /\ ~Decodable(r.body) => r.err = "ClientError"
      /\ r.status \notin {StatusOK, StatusCreated, StatusNotFound, StatusBadRequest}
           /\ ~Decodable(r.body) => r.err = "ServiceError"

FirstAnswer(suite, key) ==
  LET S == {i \in 1..Len(suite) : ConfigGet(suite[i], key)[2] # "NoSuchKeyError"}
  IN  IF S = {} THEN 0 ELSE CHOOSE i \in S : \A j \in S : i <= j

\* C25: a Get of a suite returns what the first configuration that does not
\* report NoSuchKeyError returns, its value or its error, and asks no
\* configuration after that one; it returns NoSuchKeyError exactly when every
\* configuration reports NoSuchKeyError (an empty suite included).
C25_SuiteGetFirstAnswer ==
  \A t \in Threads :
    LET r == res[t]
        f == FirstAnswer(r.suite, r.key) IN
    r.op = "Suite.Get" =>
      /\ f # 0 => /\ r.ret = ConfigGet(r.suite[f], r.key)[1]
                  /\ r.err = ConfigGet(r.suite[f], r.key)[2]
                  /\ r.idx = f
      /\ f = 0 => r.ret = "" /\ r.idx = Len(r.suite)
      /\ r.err = "NoSuchKeyError" <=> f = 0

\* A suite returned an error of its second configuration, which is not
\* NoSuchKeyError, without asking the third, which holds the key.
C25_Witness ==
  \E t \in Threads :
    /\ res[t].op = "Suite.Get"
    /\ Len(res[t].suite) = 3
    /\ res[t].err = "ServiceError"
    /\ res[t].idx = 2
    /\ ConfigGet(res[t].suite[3], res[t].key)[2] = ""

\* C26: a long-poll of a loop that has a last known response asks for the
\* index after that response's, and two successful fetches in a row of one
\* loop never deliver the same change of the store.
C26_NoEventTwice ==
  /\ \A l \in Running :
       loops[l].pc = "poll" /\ ~IsNil(loops[l].rsp)
         => loops[l].wait = loops[l].rsp.modified + 1
  /\ \A i \in 1..Len(applied), j \in 1..Len(applied) :
       applied[i].l = applied[j].l /\ applied[j].seq = applied[i].seq + 1
         => applied[j].rsp.modified # applied[i].rsp.modified

\* C27: no step lowers the modification index of the response an entry holds.
C27_IndexNeverDecreases ==
  [][\A e \in EntryIds :
       entries[e].alloc /\ entries'[e].alloc /\ entries'[e].key = entries[e].key
         => entries'[e].response.modified >= entries[e].response.modified]_vars

\* C28: when the value of a fetched update does not decode, the loop stores
\* the update as the entry's response all the same, and its next step starts
\* no observer, leaves the stored response alone and is back at the top of the
\* loop, running, with the failure counter at zero; no observer is ever
\* started for a change whose value does not decode.
C28_UndecodableStoredNotNotified ==
  [][/\ \A l \in Running :
          ~Decodable(loops[l].rsp.value) =>
            /\ loops[l].pc = "got" /\ loops'[l].pc # "got"
                 => entries'[loops[l].e].response = loops[l].rsp
            /\ loops[l].pc = "dispatch" /\ loops'[l].pc # "dispatch"
                 => /\ tasks' = tasks
                    /\ entries' = entries
                    /\ loops'[l].on /\ loops'[l].pc = "top"
                    /\ loops'[l].errcount = 0
     /\ \A k \in tasks' : Decodable(sEvents[k.idx].value)]_vars

\* The loop stored a change that does not decode while an observer was
\* registered, nobody was invoked for it, and the observer has received the
\* next change.
C28_Witness ==
  \E i \in 1..Len(applied), j \in 1..Len(applied) :
    /\ ~Decodable(applied[i].rsp.value)
    /\ applied[i].obs # <<>>
    /\ applied[j].l = applied[i].l /\ applied[j].seq = applied[i].seq + 1
    /\ \E o \in Observers : ReceivedFor(applied[j], o) # {}
    /\ \A o \in Observers : ReceivedFor(applied[i], o) = {} /\ PendingFor(applied[i], o) = 0

\* C29: the step that replaces the entry's response by an update records the
\* observer list of that moment, and the step that starts the observers for
\* the update starts exactly the observers of that record, each as often as it
\* is listed there, whatever the entry's list has become since.
C29_SnapshotInvoked ==
  [][/\ Len(applied') > Len(applied) =>
          LET a == applied'[Len(applied')] IN
          /\ a.obs = entries[a.e].observers
          /\ entries'[a.e].response = a.rsp
     /\ \A l \in Running :
          loops[l].pc = "dispatch" /\ loops'[l].pc # "dispatch"
            /\ Decodable(loops[l].rsp.value) =>
              \E n \in 1..Len(applied) :
                /\ applied[n].l = l /\ applied[n].seq = loops[l].seq
                /\ \A o \in Observers :
                     Cardinality({k \in tasks' \ tasks :
                                    k.l = l /\ k.seq = loops[l].seq /\ k.obs = o})
                       = Count(applied[n].obs, o)
                /\ \A k \in tasks' \ tasks : k.l = l /\ k.seq = loops[l].seq]_vars

\* An update was stored while an observer was registered; all observers were
\* removed after that, and the observer of the record has been invoked for the
\* update all the same.
C29_Witness ==
  \E n \in 1..Len(applied), o \in Observers :
    /\ Count(applied[n].obs, o) = 1
    /\ ReceivedFor(applied[n], o) # {}
    /\ entries[applied[n].e].observers = <<>>
    /\ entries[applied[n].e].response = applied[n].rsp

\* C30: an entry's watching flag is set exactly when a loop started for the
\* entry is running.
C30_WatchingIffLoop ==
  \A e \in EntryIds :
    /\ entries[e].alloc => (entries[e].watching <=> LoopsOf(e) # {})
    /\ ~entries[e].alloc => LoopsOf(e) = {}

\* One entry is watching with its loop running while a Cancel of it is under
\* way, and another entry holds a response, is not watching and has no loop.
C30_Witness ==
  \E e \in EntryIds, f \in EntryIds, t \in Threads :
    /\ entries[e].alloc /\ entries[e].watching /\ LoopsOf(e) # {}
    /\ th[t].pc = "cancel_send" /\ th[t].e = e
    /\ entries[f].alloc /\ ~entries[f].watching /\ LoopsOf(f) = {}
    /\ ~IsNil(entries[f].response)

\* C31: a response whose node is read has a node: the response the loop is
\* about to decode, the last known response the loop builds its waitIndex
\* from, and the cached response Get returns the value of.
C31_NoNilNodeRead ==
  /\ \A l \in Running :
       /\ loops[l].pc = "dispatch" => loops[l].rsp.node
       /\ loops[l].pc = "poll" /\ ~IsNil(loops[l].rsp) => loops[l].rsp.node
       /\ loops[l].pc # "panic"
  /\ \A t \in Threads : res[t].err # "panic"

\* C32: the step of registry Set or SetAndWatch that stores a response for a
\* key that has an entry changes the response of that entry and nothing else:
\* the registry, the entry's observers and watching flag, the loops and the
\* observers started stay as they are.
C32_RefreshKeepsEntry ==
  [][\A t \in Threads :
       th[t].pc \in {"cset_set", "saw_set"} /\ th'[t].pc # th[t].pc
         /\ props[th[t].key] # 0 =>
           /\ props' = props
           /\ entries' = [entries EXCEPT ![props[th[t].key]].response = th[t].rsp]
           /\ loops' = loops
           /\ tasks' = tasks]_vars

\* A Set made after the observer was registered has returned, the observer is
\* still in the list of the key's entry, and it has received a change made
\* after that Set.
C32_Witness ==
  \E t \in Threads, k \in Keys, o \in Observers :
    /\ res[t].op = "Set" /\ res[t].err = "" /\ th[t].pc = "idle"
    /\ props[k] # 0
    /\ Count(entries[props[k]].observers, o) = 1
    /\ entries[props[k]].watching
    /\ \E n \in 1..Len(calls[o]) : calls[o][n].idx > res[t].idx

\* The places of a call inside a critical section of the registry, as writer
\* and as reader, and the places where a call waits for the registry's lock.
InRegistryWrite == {"ao_lookup", "ao_create", "ao_entry", "saw_set", "saw_watch", "cset_set"}
InRegistryRead == {"cget_read"}
AtRegistryLock == {"saw_lock", "cset_lock"}

\* The next step of a call that is inside a registry operation.
InsideStep(t) ==
  \/ CacheGetRead(t)
  \/ SetAndWatchSet(t) \/ SetAndWatchWatch(t)
  \/ CacheSetSet(t)
  \/ GetOrCreateLookup(t) \/ GetOrCreateInsert(t) \/ CacheAddObserverEntry(t)

\* C33: no interleaving of the registry operations, the entry operations and
\* the loops deadlocks.  No goroutine, caller or loop, stops while it holds an
\* entry's lock; the registry's lock is held only by a call inside a registry
\* operation, which never waits for the registry's lock again and can always
\* take its next step; a call waiting for the registry's lock, and a
\* goroutine between calls, holds no lock at all.
C33_NoDeadlock ==
  /\ \A e \in EntryIds : EntryLockFree(e)
  /\ \A t \in Threads :
       /\ cacheW = t => th[t].pc \in InRegistryWrite
       /\ t \in cacheR => th[t].pc \in InRegistryRead
       /\ th[t].pc \in AtRegistryLock \cup {"idle", "done", "get_fetch"} => ~Holds(t)
       /\ Holds(t) => ENABLED InsideStep(t)
  /\ cacheW # 0 => cacheR = {}

\* A Set waits for the registry's lock, which a Watch call holds while it is
\* about to take the lock of the entry, whose loop is about to take it too.
C33_Witness ==
  \E t \in Threads, u \in Threads, l \in Running :
    /\ th[t].pc = "cset_lock"
    /\ th[u].pc = "ao_entry" /\ cacheW = u
    /\ loops[l].e = th[u].e /\ loops[l].pc = "got"


====
